---- MODULE Spec2Model ----
(***************************************************************************)
(* Connection registry and message router of the WebRTC signalling server. *)
(*                                                                         *)
(* server (src/unnamed/part_001, lines 180-359): the connection, pong,     *)
(*   message, close and error listeners and the heartbeat interval.        *)
(* messageHandler (src/unnamed/part_000): handleWebSocketMessage.          *)
(* wsUtils (src/src/wsUtils.ts): sendWsMessage and broadcast.              *)
(* db (src/unnamed/part_004): the push-token store.                        *)
(*                                                                         *)
(* Every listener runs to completion on the single event loop, so one      *)
(* action is one listener invocation.  handleWebSocketMessage is async: a  *)
(* handler that reaches an await on the store is split at the await into   *)
(* the part before it (action Message) and its continuation (action        *)
(* StoreReturn); other listeners may run in between.                       *)
(*                                                                         *)
(* The ws library is modelled by what it does to readyState: a socket is   *)
(* OPEN when the connection event fires, terminate() and a peer's close    *)
(* make it CLOSING, and the close event is emitted later, with CLOSED.     *)
(* Message and pong events are emitted for an OPEN socket only, the error  *)
(* event at most once per socket and before its close event, send() on an  *)
(* OPEN socket does not throw, and ping() on a socket that is not OPEN     *)
(* does nothing.                                                           *)
(*                                                                         *)
(* sent and last are history variables: what the last listener handed to   *)
(* the sockets and the store, and which listener it was.  removals,        *)
(* notices and unanswered count what the listeners did to one socket.      *)
(*                                                                         *)
(* The process is modelled from the load of server.ts: wss is null until   *)
(* initializeDatabase() has resolved, each SIGINT or SIGTERM starts one    *)
(* run of gracefulShutdown, which is split at the callback of wss.close    *)
(* and at `await closeDbPool()`, and nothing happens after process.exit.   *)
(* When wss.close calls back and when pool.end() settles is up to the      *)
(* libraries: either may happen at any time or never.                      *)
(***************************************************************************)
EXTENDS Naturals, FiniteSets, Bags, TLC

\* ---------------------------------------------------------------- bounds
MaxConns == 2      \* sockets that exist at once (a closed one makes room)
MaxPending == 1    \* store calls in flight at once
MaxSignals == 2    \* termination signals the process receives

Conns == 1..MaxConns
Signals == 1..MaxSignals

Users == {"alice", "bob"}
Tokens == {"tok"}
Payloads == {"sdp1", "sdp2"}

None == "<none>"   \* undefined / absent field
Blank == " "       \* a string that trim() empties

\* ------------------------------------------------------------ MessageType
Login == "login"
LoginSuccess == "login_success"
RegisterPush == "register_push"
PushRegistered == "push_registered"
Offer == "offer"
Answer == "answer"
Candidate == "candidate"
MessageRequest == "message_request"
UserLeft == "user_left"
Error == "error"
Info == "info"

RelayTypes == {Offer, Answer, Candidate, MessageRequest}

\* ------------------------------------------------------------- readyState
UNBORN == "unborn"     \* not accepted yet: no connection event so far
OPEN == "open"
CLOSING == "closing"
CLOSED == "closed"

VARIABLES
    readyState,   \* [Conns -> state of the socket]
    clientId,     \* [Conns -> provisional id, or None]
    userId,       \* [Conns -> user id, or None]
    isAlive,      \* [Conns -> BOOLEAN]
    clients,      \* the registry Map: [Users -> Conns \cup {0}], 0 = no entry
    store,        \* user_push_tokens: [Users -> Tokens \cup {None}]
    pending,      \* handlers suspended at an await on the store
    sent,         \* what the last listener handed to ws.send / ws.ping / the store
    last,         \* the event the last listener handled
    errored,      \* [Conns -> BOOLEAN]: the error event has fired
    removals,     \* [Conns -> number of clients.delete by the connection's listeners]
    notices,      \* [Conns -> number of user_left broadcasts by its listeners]
    unanswered,   \* [Conns -> ticks that found the socket OPEN since its last pong]
    wss,          \* the WebSocketServer: "null", "listening", "closing", "closed"
    heartbeatInterval,  \* the heartbeat timer is set
    shutdown,     \* [Signals -> where that run of gracefulShutdown is]
    forceExit,    \* [Signals -> the 10 s timer of that run is armed]
    poolEnding,   \* pool.end() has been called
    exited        \* the code of process.exit, None while the process runs

vars == <<readyState, clientId, userId, isAlive, clients, store, pending,
          sent, last, errored, removals, notices, unanswered,
          wss, heartbeatInterval, shutdown, forceExit, poolEnding, exited>>

connVars == <<readyState, clientId, userId, isAlive>>
histVars == <<errored, removals, notices, unanswered>>
procVars == <<wss, heartbeatInterval, shutdown, forceExit, poolEnding, exited>>

\* No process.exit yet: the event loop still runs listeners.
Running == exited = None

NoConn == 0

\* ----------------------------------------------------------------- envelopes
\* SignalingMessage.  An inbound login carries payload.userId in payload, an
\* inbound register_push carries payload.pushToken in payload, a relay type
\* carries its free-form payload; None is an absent field.
Envelope(type, payload, target, sender) ==
    [type |-> type, payload |-> payload, target |-> target, sender |-> sender]

\* An outbound unit: kind "send" is ws.send of a SignalingMessage to socket
\* `to`, "ping" is ws.ping, "save" and "lookup" are calls of the store (to = 0).
Out(kind, to, type, payload, sender, target, originalType) ==
    [kind |-> kind, to |-> to, type |-> type, payload |-> payload,
     sender |-> sender, target |-> target, originalType |-> originalType]

Reply(type, payload, originalType) ==
    [type |-> type, payload |-> payload, sender |-> None, target |-> None,
     originalType |-> originalType]

ErrorReply(message, originalType) == Reply(Error, message, originalType)

\* `!x || typeof x !== 'string' || x.trim() === ''`
ValidString(x) == x # None /\ x # Blank

\* -------------------------------------------------------------------- wsUtils
sendWsMessage(ws, message) ==
    IF readyState[ws] = OPEN
    THEN SetToBag({Out("send", ws, message.type, message.payload, message.sender,
                       message.target, message.originalType)})
    ELSE EmptyBag

\* clients.forEach: one visit per key, so a socket stored under two keys is
\* visited twice.
RECURSIVE broadcastKeys(_, _, _, _)
broadcastKeys(keys, map, message, senderWs) ==
    IF keys = {} THEN EmptyBag
    ELSE LET k == CHOOSE x \in keys : TRUE
             rest == broadcastKeys(keys \ {k}, map, message, senderWs)
         IN  IF map[k] # senderWs THEN sendWsMessage(map[k], message) (+) rest
             ELSE rest

broadcast(map, message, senderWs) ==
    broadcastKeys({k \in Users : map[k] # NoConn}, map, message, senderWs)

\* ------------------------------------------------------------------ ws library
\* terminate() as a close with no close event to follow.
terminate_NoCloseEvent(rs, ws) == [rs EXCEPT ![ws] = CLOSED]

\* WebSocket.terminate(): nothing on a CLOSED socket, else CLOSING and the
\* socket is destroyed; the close event follows later.
terminate(rs, ws) ==
    IF rs[ws] = CLOSED THEN rs ELSE [rs EXCEPT ![ws] = CLOSING]

\* wss.clients: the sockets whose close event has not been emitted yet.
wssClients == {c \in Conns : readyState[c] \in {OPEN, CLOSING}}

\* The listener that ran last, the socket it ran for and, for a message, the
\* sender field the peer put in it.
Step(event, conn) == [event |-> event, conn |-> conn, sender |-> None]

MessageStep(ws, message) ==
    [event |-> "message", conn |-> ws, sender |-> message.sender]

Bump(n) == IF n < 2 THEN n + 1 ELSE n

\* ----------------------------------------------------------------------- Init
\* The module-level state of server.ts, and no socket yet.
InitState ==
    /\ readyState = [c \in Conns |-> UNBORN]
    /\ clientId = [c \in Conns |-> None]
    /\ userId = [c \in Conns |-> None]
    /\ isAlive = [c \in Conns |-> FALSE]
    /\ clients = [u \in Users |-> NoConn]
    /\ store = [u \in Users |-> None]
    /\ pending = {}
    /\ sent = EmptyBag
    /\ last = Step("start", NoConn)
    /\ errored = [c \in Conns |-> FALSE]
    /\ removals = [c \in Conns |-> 0]
    /\ notices = [c \in Conns |-> 0]
    /\ unanswered = [c \in Conns |-> 0]
    /\ shutdown = [i \in Signals |-> "none"]
    /\ forceExit = [i \in Signals |-> FALSE]
    /\ poolEnding = FALSE
    /\ exited = None

\* The server once the callback of initializeDatabase().then has run: the
\* endpoint listens and the heartbeat timer is set.
Init ==
    /\ InitState
    /\ wss = "listening"
    /\ heartbeatInterval = TRUE

\* The process when server.ts has been loaded: initializeDatabase() is pending.
InitProcess ==
    /\ InitState
    /\ wss = "null"
    /\ heartbeatInterval = FALSE

\* ------------------------------------------------------- wss.on('connection')
\* A new socket object.  It takes the lowest slot that holds no socket, or a
\* CLOSED socket that nothing refers to any more (no registry entry, no
\* suspended handler).  clientId is a fresh uuid, of which only the presence
\* is kept.
NewClientId(ws) == "uuid"

Unreferenced(ws) ==
    /\ \A u \in Users : clients[u] # ws
    /\ \A call \in pending : call.conn # ws

Free(ws) ==
    \/ readyState[ws] = UNBORN
    \/ readyState[ws] = CLOSED /\ Unreferenced(ws)

Connection(ws) ==
    /\ Running
    /\ wss = "listening"
    /\ Free(ws)
    /\ \A c \in Conns : c < ws => ~Free(c)
    /\ readyState' = [readyState EXCEPT ![ws] = OPEN]
    /\ clientId' = [clientId EXCEPT ![ws] = NewClientId(ws)]
    /\ userId' = [userId EXCEPT ![ws] = None]
    /\ isAlive' = [isAlive EXCEPT ![ws] = TRUE]
    /\ errored' = [errored EXCEPT ![ws] = FALSE]
    /\ removals' = [removals EXCEPT ![ws] = 0]
    /\ notices' = [notices EXCEPT ![ws] = 0]
    /\ unanswered' = [unanswered EXCEPT ![ws] = 0]
    /\ sent' = EmptyBag
    /\ last' = Step("connection", ws)
    /\ UNCHANGED <<clients, store, pending, procVars>>

\* ------------------------------------------------------------- ws.on('pong')
Pong(ws) ==
    /\ Running
    /\ readyState[ws] = OPEN
    /\ isAlive' = [isAlive EXCEPT ![ws] = TRUE]
    /\ unanswered' = [unanswered EXCEPT ![ws] = 0]
    /\ sent' = EmptyBag
    /\ last' = Step("pong", ws)
    /\ UNCHANGED <<readyState, clientId, userId, clients, store, pending,
                   errored, removals, notices, procVars>>

\* ------------------------------------------------------ handleWebSocketMessage
\* What one run of the handler, up to its first await or its end, does: the
\* new readyState, clientId, userId and registry, the store call it suspends
\* on (or NoCall) and what it hands to the sockets.
Effect(rs, cid, uid, map, call, out) ==
    [rs |-> rs, cid |-> cid, uid |-> uid, map |-> map, call |-> call, out |-> out]

\* A handler suspended at `await saveOrUpdatePushToken(ws.userId, pushToken)`
\* or `await getPushToken(targetId)`.
StoreCall(op, ws, type, key, token) ==
    [op |-> op, conn |-> ws, type |-> type, key |-> key, token |-> token]

NoCall == StoreCall(None, NoConn, None, None, None)

ReplyOnly(ws, message) ==
    Effect(readyState, clientId, userId, clients, NoCall, sendWsMessage(ws, message))

Suspend(call) ==
    Effect(readyState, clientId, userId, clients, call,
           SetToBag({Out(call.op, NoConn, call.type, call.token, None, call.key, None)}))

\* handleLogin with the `ws.terminate()` of the conflict branch left out.
handleLogin_NoTerminate(ws, message) ==
    LET uid == message.payload
    IN  IF ~ValidString(uid)
        THEN ReplyOnly(ws, ErrorReply("Valid User ID is required for login", message.type))
        ELSE IF clients[uid] # NoConn
        THEN ReplyOnly(ws, ErrorReply("User ID is already taken/logged in.", message.type))
        ELSE Effect(readyState,
                    [clientId EXCEPT ![ws] = None],
                    [userId EXCEPT ![ws] = uid],
                    [clients EXCEPT ![uid] = ws],
                    NoCall,
                    sendWsMessage(ws, Reply(LoginSuccess, uid, None)))

\* handleLogin whose conflict branch also deletes the holder's entry.
handleLogin_Evict(ws, message) ==
    LET uid == message.payload
    IN  IF ~ValidString(uid)
        THEN ReplyOnly(ws, ErrorReply("Valid User ID is required for login", message.type))
        ELSE IF clients[uid] # NoConn
        THEN Effect(terminate(readyState, ws), clientId, userId,
                    [clients EXCEPT ![uid] = NoConn], NoCall,
                    sendWsMessage(ws, ErrorReply("User ID is already taken/logged in.",
                                                 message.type)))
        ELSE Effect(readyState,
                    [clientId EXCEPT ![ws] = None],
                    [userId EXCEPT ![ws] = uid],
                    [clients EXCEPT ![uid] = ws],
                    NoCall,
                    sendWsMessage(ws, Reply(LoginSuccess, uid, None)))

\* handleLogin with `delete ws.clientId` left out.
handleLogin_KeepClientId(ws, message) ==
    LET uid == message.payload
    IN  IF ~ValidString(uid)
        THEN ReplyOnly(ws, ErrorReply("Valid User ID is required for login", message.type))
        ELSE IF clients[uid] # NoConn
        THEN Effect(terminate(readyState, ws), clientId, userId, clients, NoCall,
                    sendWsMessage(ws, ErrorReply("User ID is already taken/logged in.",
                                                 message.type)))
        ELSE Effect(readyState,
                    clientId,
                    [userId EXCEPT ![ws] = uid],
                    [clients EXCEPT ![uid] = ws],
                    NoCall,
                    sendWsMessage(ws, Reply(LoginSuccess, uid, None)))

\* case MessageType.Login
handleLogin(ws, message) ==
    LET uid == message.payload
    IN  IF ~ValidString(uid)
        THEN ReplyOnly(ws, ErrorReply("Valid User ID is required for login", message.type))
        ELSE IF clients[uid] # NoConn
        THEN Effect(terminate(readyState, ws), clientId, userId, clients, NoCall,
                    sendWsMessage(ws, ErrorReply("User ID is already taken/logged in.",
                                                 message.type)))
        ELSE Effect(readyState,
                    [clientId EXCEPT ![ws] = None],
                    [userId EXCEPT ![ws] = uid],
                    [clients EXCEPT ![uid] = ws],
                    NoCall,
                    sendWsMessage(ws, Reply(LoginSuccess, uid, None)))

\* handleRegisterPush with the check of the token left out.
handleRegisterPush_NoTokenCheck(ws, message) ==
    LET pushToken == message.payload
    IN  IF userId[ws] = None
        THEN ReplyOnly(ws, ErrorReply("Must be logged in to register push token",
                                      message.type))
        ELSE Suspend(StoreCall("save", ws, message.type, userId[ws], pushToken))

\* case MessageType.RegisterPush, up to the await
handleRegisterPush(ws, message) ==
    LET pushToken == message.payload
    IN  IF userId[ws] = None
        THEN ReplyOnly(ws, ErrorReply("Must be logged in to register push token",
                                      message.type))
        ELSE IF ~ValidString(pushToken)
        THEN ReplyOnly(ws, ErrorReply("Valid push token is required", message.type))
        ELSE Suspend(StoreCall("save", ws, message.type, userId[ws], pushToken))

\* messageToSend without the override: a sender the peer set is kept.
messageToSend_KeepSender(message, senderId) ==
    [type |-> message.type, payload |-> message.payload,
     sender |-> IF message.sender # None THEN message.sender ELSE senderId,
     target |-> message.target, originalType |-> None]

\* messageToSend without the spread of message: the payload is lost.
messageToSend_NoSpread(message, senderId) ==
    [type |-> message.type, payload |-> None, sender |-> senderId,
     target |-> None, originalType |-> None]

\* `{ ...message, sender: senderId }`
messageToSend(message, senderId) ==
    [type |-> message.type, payload |-> message.payload, sender |-> senderId,
     target |-> message.target, originalType |-> None]

\* handleRelay that also acknowledges a forward to the originator.
handleRelay_Ack(ws, message) ==
    LET targetId == message.target
        senderId == userId[ws]
    IN  IF senderId = None
        THEN ReplyOnly(ws, ErrorReply("Cannot send message: Not logged in.", message.type))
        ELSE IF targetId = None
        THEN ReplyOnly(ws, ErrorReply("Target user ID is required.", message.type))
        ELSE IF message.payload = None
        THEN ReplyOnly(ws, ErrorReply("Payload is missing.", message.type))
        ELSE LET targetClient == clients[targetId]
             IN  IF targetClient # NoConn /\ readyState[targetClient] = OPEN
                 THEN Effect(readyState, clientId, userId, clients, NoCall,
                             sendWsMessage(targetClient, messageToSend(message, senderId))
                                 (+) sendWsMessage(ws, Reply(Info, "delivered", message.type)))
                 ELSE Suspend(StoreCall("lookup", ws, message.type, targetId, None))

\* case Offer / Answer / Candidate / MessageRequest, up to the await
handleRelay(ws, message) ==
    LET targetId == message.target
        senderId == userId[ws]
    IN  IF senderId = None
        THEN ReplyOnly(ws, ErrorReply("Cannot send message: Not logged in.", message.type))
        ELSE IF targetId = None
        THEN ReplyOnly(ws, ErrorReply("Target user ID is required.", message.type))
        ELSE IF message.payload = None
        THEN ReplyOnly(ws, ErrorReply("Payload is missing.", message.type))
        ELSE LET targetClient == clients[targetId]
             IN  IF targetClient # NoConn /\ readyState[targetClient] = OPEN
                 THEN Effect(readyState, clientId, userId, clients, NoCall,
                             sendWsMessage(targetClient, messageToSend(message, senderId)))
                 ELSE Suspend(StoreCall("lookup", ws, message.type, targetId, None))

\* default
handleUnknown(ws, message) ==
    ReplyOnly(ws, ErrorReply("Unknown message type", None))

handleWebSocketMessage(ws, message) ==
    IF message.type = Login THEN handleLogin(ws, message)
    ELSE IF message.type = RegisterPush THEN handleRegisterPush(ws, message)
    ELSE IF message.type \in RelayTypes THEN handleRelay(ws, message)
    ELSE handleUnknown(ws, message)

\* ws.on('message'): JSON.parse, the check of message.type, then the handler.
\* A message that does not parse or has no type is an envelope of type None.
onMessage(ws, message) ==
    IF message.type = None
    THEN ReplyOnly(ws, ErrorReply("Invalid message format or processing error", None))
    ELSE handleWebSocketMessage(ws, message)

Message(ws, message) ==
    /\ Running
    /\ readyState[ws] = OPEN
    /\ LET e == onMessage(ws, message)
       IN  /\ e.call # NoCall => /\ Cardinality(pending) < MaxPending
                               /\ e.call \notin pending
           /\ readyState' = e.rs
           /\ clientId' = e.cid
           /\ userId' = e.uid
           /\ clients' = e.map
           /\ pending' = IF e.call = NoCall THEN pending ELSE pending \cup {e.call}
           /\ sent' = e.out
    /\ last' = MessageStep(ws, message)
    /\ UNCHANGED <<isAlive, store, histVars, procVars>>

\* ------------------------------------------- the continuation after the await
\* saveOrUpdatePushToken resolves (the upsert is done) or rejects.
saveReturn(call, ok) ==
    IF ok
    THEN sendWsMessage(call.conn, Reply(PushRegistered, userId[call.conn], None))
    ELSE sendWsMessage(call.conn,
                       ErrorReply("Failed to save push token on server", call.type))

\* `{ type: MessageType.Info, payload: `User ... is offline. Push notification
\* required.` }`
InfoNotice == Reply(Info, "offline. Push notification required.", None)

\* lookupReturn with the test of the token negated.
lookupReturn_Inverted(call, ok) ==
    IF ok
    THEN IF store[call.key] = None
         THEN sendWsMessage(call.conn, InfoNotice)
         ELSE sendWsMessage(call.conn,
                            ErrorReply("offline and no push token is registered.",
                                       call.type))
    ELSE sendWsMessage(call.conn,
                       ErrorReply("Server error checking offline status", call.type))

\* lookupReturn with originalType left out of its error replies.
lookupReturn_NoOriginalType(call, ok) ==
    IF ok
    THEN IF store[call.key] # None
         THEN sendWsMessage(call.conn, InfoNotice)
         ELSE sendWsMessage(call.conn,
                            ErrorReply("offline and no push token is registered.", None))
    ELSE sendWsMessage(call.conn,
                       ErrorReply("Server error checking offline status", None))

\* getPushToken resolves with the token or null, or rejects.
lookupReturn(call, ok) ==
    IF ok
    THEN IF store[call.key] # None
         THEN sendWsMessage(call.conn, InfoNotice)
         ELSE sendWsMessage(call.conn,
                            ErrorReply("offline and no push token is registered.",
                                       call.type))
    ELSE sendWsMessage(call.conn,
                       ErrorReply("Server error checking offline status", call.type))

StoreReturn(call, ok) ==
    /\ Running
    /\ call \in pending
    /\ pending' = pending \ {call}
    /\ store' = IF call.op = "save" /\ ok THEN [store EXCEPT ![call.key] = call.token]
                ELSE store
    /\ sent' = IF call.op = "save" THEN saveReturn(call, ok) ELSE lookupReturn(call, ok)
    /\ last' = Step("store_return", call.conn)
    /\ UNCHANGED <<connVars, clients, histVars, procVars>>

\* --------------------------------------------------------- the peer goes away
\* The peer's close frame or the loss of its socket: the socket is CLOSING
\* until the close event is emitted.
peerClose(rs, ws) == [rs EXCEPT ![ws] = CLOSING]

PeerClose(ws) ==
    /\ Running
    /\ readyState[ws] = OPEN
    /\ readyState' = peerClose(readyState, ws)
    /\ sent' = EmptyBag
    /\ last' = Step("peer_close", ws)
    /\ UNCHANGED <<clientId, userId, isAlive, clients, store, pending, histVars,
                   procVars>>

\* hasEntry without `clients.has(userId)`.
hasEntry_NoHas(ws) == userId[ws] # None

\* `userId && clients.has(userId)`
hasEntry(ws) == userId[ws] # None /\ clients[userId[ws]] # NoConn

\* `clients.delete(userId)`
deleteEntry(ws) == [clients EXCEPT ![userId[ws]] = NoConn]

UserLeftMsg(uid) == Reply(UserLeft, uid, None)

\* closeListener without the test of the userId: it always broadcasts.
closeListener_AlwaysNotify(rs, ws) ==
    [emitted |-> rs[ws] = CLOSING,
     map |-> IF hasEntry(ws) THEN deleteEntry(ws) ELSE clients,
     out |-> broadcast(clients, UserLeftMsg(userId[ws]), ws)]

\* ------------------------------------------------------------ ws.on('close')
\* The close event of a socket in state rs[ws]: whether it is emitted, and the
\* registry and the notices its listener leaves.
closeListener(rs, ws) ==
    [emitted |-> rs[ws] = CLOSING,
     map |-> IF hasEntry(ws) THEN deleteEntry(ws) ELSE clients,
     out |-> IF hasEntry(ws)
             THEN broadcast(deleteEntry(ws), UserLeftMsg(userId[ws]), ws)
             ELSE EmptyBag]

OnClose(ws) ==
    /\ Running
    /\ closeListener(readyState, ws).emitted
    /\ readyState' = [readyState EXCEPT ![ws] = CLOSED]
    /\ clients' = closeListener(readyState, ws).map
    /\ sent' = closeListener(readyState, ws).out
    /\ IF hasEntry(ws)
       THEN /\ removals' = [removals EXCEPT ![ws] = Bump(@)]
            /\ notices' = [notices EXCEPT ![ws] = Bump(@)]
       ELSE UNCHANGED <<removals, notices>>
    /\ last' = Step("close", ws)
    /\ UNCHANGED <<clientId, userId, isAlive, store, pending, errored, unanswered,
                   procVars>>

\* ------------------------------------------------------------ ws.on('error')
\* Emitted at most once per socket, before its close event.
OnError(ws) ==
    /\ Running
    /\ readyState[ws] \in {OPEN, CLOSING}
    /\ ~errored[ws]
    /\ errored' = [errored EXCEPT ![ws] = TRUE]
    /\ IF hasEntry(ws)
       THEN /\ clients' = deleteEntry(ws)
            /\ sent' = broadcast(deleteEntry(ws), UserLeftMsg(userId[ws]), ws)
            /\ removals' = [removals EXCEPT ![ws] = Bump(@)]
            /\ notices' = [notices EXCEPT ![ws] = Bump(@)]
       ELSE /\ sent' = EmptyBag
            /\ UNCHANGED <<clients, removals, notices>>
    /\ readyState' = IF readyState[ws] # CLOSED /\ readyState[ws] # CLOSING
                     THEN terminate(readyState, ws) ELSE readyState
    /\ last' = Step("error", ws)
    /\ UNCHANGED <<clientId, userId, isAlive, store, pending, unanswered, procVars>>

\* -------------------------------------------------------- heartbeatInterval
\* One tick: the forEach over wss.clients runs to completion.
\* The test negated by mistake: the sockets that answered are terminated.
heartbeatTerminates_Inverted(client) == isAlive[client]

heartbeatTerminates(client) == ~isAlive[client]

RECURSIVE terminateAll(_, _)
terminateAll(rs, set) ==
    IF set = {} THEN rs
    ELSE LET c == CHOOSE x \in set : TRUE
         IN  terminateAll(terminate(rs, c), set \ {c})

\* ping that sends no frame.
ping_Never(client) == EmptyBag

\* client.ping(): a ping frame if the socket is OPEN, nothing otherwise.
ping(client) ==
    IF readyState[client] = OPEN
    THEN SetToBag({Out("ping", client, None, None, None, None, None)})
    ELSE EmptyBag

RECURSIVE pingAll(_)
pingAll(set) ==
    IF set = {} THEN EmptyBag
    ELSE LET c == CHOOSE x \in set : TRUE
         IN  ping(c) (+) pingAll(set \ {c})

HeartbeatTick ==
    /\ Running
    /\ heartbeatInterval
    /\ LET dead == {c \in wssClients : heartbeatTerminates(c)}
           probed == wssClients \ dead
       IN  /\ readyState' = terminateAll(readyState, dead)
           /\ isAlive' = [c \in Conns |-> IF c \in probed THEN FALSE ELSE isAlive[c]]
           /\ sent' = pingAll(probed)
    /\ unanswered' = [c \in Conns |->
                        IF readyState[c] = OPEN THEN Bump(unanswered[c]) ELSE unanswered[c]]
    /\ last' = Step("tick", NoConn)
    /\ UNCHANGED <<clientId, userId, clients, store, pending, errored, removals,
                   notices, procVars>>

\* ------------------------------------------------- initializeDatabase().then
\* The endpoint is created and the heartbeat timer is set.  Nothing in
\* gracefulShutdown cancels this callback.
Startup ==
    /\ Running
    /\ wss = "null"
    /\ wss' = "listening"
    /\ heartbeatInterval' = TRUE
    /\ sent' = EmptyBag
    /\ last' = Step("startup", NoConn)
    /\ UNCHANGED <<connVars, clients, store, pending, histVars, shutdown, forceExit,
                   poolEnding, exited>>

\* initializeDatabase().catch: process.exit(1)
StartupFails ==
    /\ Running
    /\ wss = "null"
    /\ exited' = "1"
    /\ sent' = EmptyBag
    /\ last' = Step("startup_failed", NoConn)
    /\ UNCHANGED <<connVars, clients, store, pending, histVars, wss,
                   heartbeatInterval, shutdown, forceExit, poolEnding>>

\* ---------------------------------------------------------- gracefulShutdown
\* The run of gracefulShutdown that a signal starts, up to its first await
\* (no endpoint yet) or to its end (the callback and the timer are set).
NextSignal(i) ==
    /\ shutdown[i] = "none"
    /\ \A j \in Signals : j < i => shutdown[j] # "none"

\* `setTimeout(() => { ...; process.exit(1) }, 10000)`
armForceExit(i) == [forceExit EXCEPT ![i] = TRUE]

\* `clearInterval(heartbeatInterval); heartbeatInterval = null`
clearHeartbeat == FALSE

\* gracefulShutdown with `clients.clear()` left out.
clearClients_Skip == clients

\* `clients.clear()`
clearClients == [u \in Users |-> NoConn]

\* wss.close(): the endpoint stops accepting; the callback comes later.
wssClose == IF wss = "listening" THEN "closing" ELSE wss

gracefulShutdown(i) ==
    /\ Running
    /\ NextSignal(i)
    /\ heartbeatInterval' = clearHeartbeat
    /\ IF wss = "null"
       THEN /\ shutdown' = [shutdown EXCEPT ![i] = "closeDbPool"]
            /\ poolEnding' = TRUE
            /\ UNCHANGED <<readyState, clients, wss, forceExit>>
       ELSE /\ readyState' = terminateAll(readyState, wssClients)
            /\ clients' = clearClients
            /\ wss' = wssClose
            /\ shutdown' = [shutdown EXCEPT ![i] = "wssClose"]
            /\ forceExit' = armForceExit(i)
            /\ UNCHANGED poolEnding
    /\ sent' = EmptyBag
    /\ last' = Step("signal", NoConn)
    /\ UNCHANGED <<clientId, userId, isAlive, store, pending, histVars, exited>>

\* The endpoint has closed: every callback handed to wss.close runs up to its
\* `await closeDbPool()`.  err is the callback's argument.
WssClosed(err) ==
    /\ Running
    /\ wss \in {"closing", "closed"}
    /\ \E i \in Signals : shutdown[i] = "wssClose"
    /\ wss' = "closed"
    /\ shutdown' = [i \in Signals |->
                      IF shutdown[i] = "wssClose"
                      THEN IF err THEN "closeDbPoolErr" ELSE "closeDbPool"
                      ELSE shutdown[i]]
    /\ poolEnding' = TRUE
    /\ sent' = EmptyBag
    /\ last' = Step("wss_closed", NoConn)
    /\ UNCHANGED <<connVars, clients, store, pending, histVars, heartbeatInterval,
                   forceExit, exited>>

\* closeDbPool() of run i returns (pool.end() resolved, or rejected and was
\* caught) and the run goes on to process.exit.
DbPoolClosed(i) ==
    /\ Running
    /\ shutdown[i] \in {"closeDbPool", "closeDbPoolErr"}
    /\ exited' = IF shutdown[i] = "closeDbPoolErr" THEN "1" ELSE "0"
    /\ shutdown' = [shutdown EXCEPT ![i] = "exit"]
    /\ sent' = EmptyBag
    /\ last' = Step("pool_closed", NoConn)
    /\ UNCHANGED <<connVars, clients, store, pending, histVars, wss,
                   heartbeatInterval, forceExit, poolEnding>>

\* The 10 s timer of run i fires: process.exit(1)
ForceExit(i) ==
    /\ Running
    /\ forceExit[i]
    /\ exited' = "1"
    /\ sent' = EmptyBag
    /\ last' = Step("force_exit", NoConn)
    /\ UNCHANGED <<connVars, clients, store, pending, histVars, wss,
                   heartbeatInterval, shutdown, forceExit, poolEnding>>

\* ------------------------------------------------------------- the environment
\* The envelopes the peers send.  A field that the handler of a type never
\* reads is left absent.
LoginEnvelopes == {Envelope(Login, u, None, None) : u \in Users \cup {None, Blank}}

PushEnvelopes == {Envelope(RegisterPush, t, None, None) : t \in Tokens \cup {None, Blank}}

\* The four relay types share one case body; the peers use the first and the
\* last of them.  A peer may set sender itself.
SentRelayTypes == {Offer, MessageRequest}
Senders == {None, "alice"}

RelayEnvelopes ==
    {Envelope(t, p, u, s) : t \in SentRelayTypes, p \in Payloads, u \in Users,
                            s \in Senders}
    \cup {Envelope(t, "sdp1", None, None) : t \in SentRelayTypes}
    \cup {Envelope(t, None, "alice", None) : t \in SentRelayTypes}

\* An unknown type, and a message that does not parse or has no type.
OtherEnvelopes == {Envelope("bogus", None, None, None),
                   Envelope(None, None, None, None)}

Envelopes == LoginEnvelopes \cup PushEnvelopes \cup RelayEnvelopes \cup OtherEnvelopes

\* Spec: the lifecycle of the connections.  The peers log in, answer probes,
\* go away and fail; the heartbeat ticks.
Next ==
    \/ \E ws \in Conns : Connection(ws)
    \/ \E ws \in Conns : Pong(ws)
    \/ \E ws \in Conns, message \in LoginEnvelopes : Message(ws, message)
    \/ \E ws \in Conns : PeerClose(ws)
    \/ \E ws \in Conns : OnClose(ws)
    \/ \E ws \in Conns : OnError(ws)
    \/ HeartbeatTick

Spec == Init /\ [][Next]_vars

\* SpecRouter: the message router.  The peers send every kind of envelope and
\* go away; the store answers.
NextRouter ==
    \/ \E ws \in Conns : Connection(ws)
    \/ \E ws \in Conns, message \in Envelopes : Message(ws, message)
    \/ \E call \in pending, ok \in BOOLEAN : StoreReturn(call, ok)
    \/ \E ws \in Conns : PeerClose(ws)
    \/ \E ws \in Conns : OnClose(ws)

SpecRouter == Init /\ [][NextRouter]_vars

\* SpecShutdown: the process from the load of server.ts to its exit.  The
\* peers connect, log in, fail and go away, the heartbeat ticks, and the
\* process receives termination signals.
NextShutdown ==
    \/ Startup
    \/ StartupFails
    \/ \E ws \in Conns : Connection(ws)
    \/ \E ws \in Conns, message \in LoginEnvelopes : Message(ws, message)
    \/ \E ws \in Conns : OnClose(ws)
    \/ \E ws \in Conns : OnError(ws)
    \/ HeartbeatTick
    \/ \E i \in Signals : gracefulShutdown(i)
    \/ \E err \in BOOLEAN : WssClosed(err)
    \/ \E i \in Signals : DbPoolClosed(i)
    \/ \E i \in Signals : ForceExit(i)

SpecShutdown == InitProcess /\ [][NextShutdown]_vars

\* A timer that is armed fires; nothing obliges wss.close to call back or
\* pool.end() to settle.
SpecShutdownFair ==
    SpecShutdown /\ \A i \in Signals : WF_vars(ForceExit(i))

\* ===================================================================== claims

Live(ws) == readyState[ws] = OPEN

\* C1 (uniqueness): in every reachable state at most one live connection
\* holds a given userId, so two logins for one userId on two connections never
\* both succeed while both connections are alive.
C1_Uniqueness ==
    \A a, b \in Conns :
        (a # b /\ Live(a) /\ Live(b) /\ userId[a] # None) => userId[a] # userId[b]

\* What sendWsMessage hands to socket `to`, as the only unit sent.
Only(to, message) ==
    SetToBag({Out("send", to, message.type, message.payload, message.sender,
                  message.target, message.originalType)})

ConflictReply == ErrorReply("User ID is already taken/logged in.", Login)

\* C2 (login conflict): a login for u handled on connection B while the
\* registry holds u for another connection A sends B one error reply with
\* originalType login and terminates B; the registry, A's state and A's
\* identity are as before.
C2_LoginConflict ==
    [][\A B \in Conns, u \in Users :
          (/\ last'.event = "message"
           /\ clients[u] # NoConn
           /\ clients[u] # B
           /\ Message(B, Envelope(Login, u, None, None)))
          => (/\ sent' = Only(B, ConflictReply)
              /\ readyState'[B] = CLOSING
              /\ clients' = clients
              /\ userId' = userId
              /\ readyState'[clients[u]] = readyState[clients[u]])]_vars

\* A rejected login has just been handled on B while A is open and registered.
C2_Witness ==
    \E A, B \in Conns :
        /\ A # B
        /\ last.event = "message"
        /\ last.conn = B
        /\ sent = Only(B, ConflictReply)
        /\ readyState[B] = CLOSING
        /\ Live(A)
        /\ userId[A] # None
        /\ clients[userId[A]] = A

\* The relay envelopes among the units the last listener sent.
Forwarded == {o \in BagToSet(sent) : o.kind = "send" /\ o.type \in RelayTypes}

\* C3 (sender integrity): the sender of every forwarded relay envelope is the
\* userId of the connection it came from, and what the handler does with a
\* relay envelope does not depend on the sender the peer put in it.
C3_SenderIntegrity ==
    /\ \A o \in Forwarded :
          /\ last.event = "message"
          /\ userId[last.conn] # None
          /\ o.sender = userId[last.conn]
    /\ \A ws \in Conns, m \in RelayEnvelopes, s \in Senders \cup Users :
          Live(ws) => onMessage(ws, m) = onMessage(ws, [m EXCEPT !.sender = s])

\* A relay envelope in which bob named alice as its sender has been forwarded
\* to another socket.
C3_Witness ==
    \E o \in Forwarded :
        /\ last.event = "message"
        /\ o.to # last.conn
        /\ last.sender = "alice"
        /\ userId[last.conn] = "bob"
        /\ o.sender = "bob"

\* C4 (direct forwarding): a relay envelope with target and payload from an
\* identified connection, whose target the registry maps to an open
\* connection, is handed once to that connection and to no other, with the
\* type and payload as sent, and no store call is made.
C4_DirectForward ==
    [][\A ws \in Conns, m \in RelayEnvelopes :
          (/\ last' = MessageStep(ws, m)
           /\ userId[ws] # None
           /\ m.target # None
           /\ m.payload # None
           /\ clients[m.target] # NoConn
           /\ Live(clients[m.target])
           /\ Message(ws, m))
          => (/\ sent' = Only(clients[m.target],
                              [type |-> m.type, payload |-> m.payload,
                               sender |-> userId[ws], target |-> m.target,
                               originalType |-> None])
              /\ pending' = pending
              /\ store' = store)]_vars

\* An offer with payload sdp2 has been handed to its target, another socket.
C4_Witness ==
    \E o \in Forwarded :
        /\ last.event = "message"
        /\ o.to # last.conn
        /\ o.to = clients[o.target]
        /\ o.type = Offer
        /\ o.payload = "sdp2"
        /\ BagCardinality(sent) = 1

Identified(ws) == userId[ws] # None

\* C5 (exactly one departure notice): a connection that logged in and has
\* gone away had its registry entry removed exactly once and its user_left
\* broadcast exactly once, by whichever of close, error and heartbeat
\* termination took it away.
C5_ExactlyOneDeparture ==
    \A c \in Conns :
        (readyState[c] = CLOSED /\ Identified(c)) => (removals[c] = 1 /\ notices[c] = 1)

\* C6 (registry-liveness coupling): once the close of a connection has been
\* handled no registry key maps to it, so every userId it held is free again.
C6_NoEntryAfterClose ==
    \A c \in Conns, u \in Users : readyState[c] = CLOSED => clients[u] # c

\* C7 (registry invariant): every connection stored in the registry is open.
C7_EntriesAreOpen ==
    \A u \in Users : clients[u] # NoConn => readyState[clients[u]] = OPEN

PingTo(ws) == Out("ping", ws, None, None, None, None, None)

\* C8 (heartbeat reclamation): a tick terminates every open connection whose
\* alive flag is false, and clears the flag of and probes every other open
\* connection; so no connection stays open through two ticks without a pong
\* handled in between.
C8_HeartbeatReclamation ==
    /\ [](\A c \in Conns : Live(c) => unanswered[c] <= 1)
    /\ [][HeartbeatTick =>
            \A c \in Conns :
                Live(c) =>
                    IF ~isAlive[c]
                    THEN readyState'[c] = CLOSING /\ CopiesIn(PingTo(c), sent') = 0
                    ELSE /\ Live(c)'
                         /\ ~isAlive'[c]
                         /\ CopiesIn(PingTo(c), sent') = 1]_vars

\* The second tick in a row that a connection did not answer has just
\* terminated it.
C8_Witness ==
    \E c \in Conns :
        /\ last.event = "tick"
        /\ readyState[c] = CLOSING
        /\ unanswered[c] = 2
        /\ ~isAlive[c]

Pings(bag) == \A o \in BagToSet(bag) : o.kind = "ping"

\* C9 (heartbeat closure = explicit disconnect): the heartbeat's termination
\* of a connection leaves it, the registry and the identities as a peer's
\* close of it does, sends no notice itself, and the close event that follows
\* either of them leaves the same registry and sends the same user_left
\* notices to the same recipients.
C9_HeartbeatAsDisconnect ==
    /\ [](\A c \in Conns :
            Live(c) =>
                /\ closeListener(terminate(readyState, c), c).emitted
                /\ closeListener(terminate(readyState, c), c)
                     = closeListener(peerClose(readyState, c), c))
    /\ [][HeartbeatTick =>
            /\ clients' = clients
            /\ userId' = userId
            /\ Pings(sent')
            /\ \A c \in Conns :
                  (Live(c) /\ ~isAlive[c])
                      => readyState'[c] = peerClose(readyState, c)[c]]_vars

\* The close event of a logged-in connection that the heartbeat terminated
\* has been handled: its entry is gone and another connection got user_left.
C9_Witness ==
    \E c, d \in Conns :
        /\ last = Step("close", c)
        /\ unanswered[c] = 2
        /\ Identified(c)
        /\ clients[userId[c]] = NoConn
        /\ d # c
        /\ sent = Only(d, UserLeftMsg(userId[c]))

LookupFor(ws, m) == StoreCall("lookup", ws, m.type, m.target, None)

\* What a relay envelope whose target is not live does up to the store call:
\* nothing is sent to any socket, the lookup of the target is the one call.
DefersToStore ==
    \A ws \in Conns, m \in RelayEnvelopes :
        (/\ last' = MessageStep(ws, m)
         /\ Identified(ws)
         /\ m.target # None
         /\ m.payload # None
         /\ (clients[m.target] = NoConn \/ ~Live(clients[m.target]))
         /\ Message(ws, m))
        => (/\ pending' = pending \cup {LookupFor(ws, m)}
            /\ sent' = SetToBag({Out("lookup", NoConn, m.type, None, None, m.target, None)})
            /\ store' = store)

\* C10 as stated (deferred delivery): when the lookup for a relay envelope
\* whose target is not live finds a push token, the originator receives
\* exactly one info notice and nothing else is sent.
C10_AlwaysInfo ==
    [][/\ DefersToStore
       /\ \A call \in pending :
             (call.op = "lookup" /\ store[call.key] # None /\ StoreReturn(call, TRUE))
                 => sent' = Only(call.conn, InfoNotice)]_vars

\* C10 as amended: ... the originator receives exactly one info notice if it
\* is still open when the lookup returns, and nothing if it is not; no relay
\* envelope goes to any connection, no push is delivered, the store and the
\* registry are unchanged.
C10_DeferredDelivery ==
    [][/\ DefersToStore
       /\ \A call \in pending :
             (call.op = "lookup" /\ store[call.key] # None /\ StoreReturn(call, TRUE))
                 => (/\ sent' = IF Live(call.conn) THEN Only(call.conn, InfoNotice)
                                ELSE EmptyBag
                     /\ store' = store
                     /\ clients' = clients)]_vars

\* The lookup for a relay envelope found a token and the originator, still
\* open, got the info notice.
C10_Witness ==
    /\ last.event = "store_return"
    /\ Live(last.conn)
    /\ Identified(last.conn)
    /\ sent = Only(last.conn, InfoNotice)

UnreachableReply(type) == ErrorReply("offline and no push token is registered.", type)

LookupFailedReply(type) == ErrorReply("Server error checking offline status", type)

\* C11 as stated (unreachable target): when the lookup for a relay envelope
\* whose target is not live finds no push token the originator receives an
\* error reply with the envelope's type as originalType, when the lookup
\* fails it receives a server-error reply, and nothing goes to any other
\* connection.
C11_AlwaysError ==
    [][/\ DefersToStore
       /\ \A call \in pending :
             /\ (call.op = "lookup" /\ store[call.key] = None /\ StoreReturn(call, TRUE))
                   => sent' = Only(call.conn, UnreachableReply(call.type))
             /\ (call.op = "lookup" /\ StoreReturn(call, FALSE))
                   => sent' = Only(call.conn, LookupFailedReply(call.type))]_vars

\* C11 as amended: ... the originator receives that one reply if it is still
\* open when the lookup returns, and nothing is sent if it is not; in both
\* cases nothing goes to any other connection and the registry and the store
\* are unchanged.
C11_UnreachableTarget ==
    [][/\ DefersToStore
       /\ \A call \in pending :
             /\ (call.op = "lookup" /\ store[call.key] = None /\ StoreReturn(call, TRUE))
                   => (/\ sent' = IF Live(call.conn)
                                  THEN Only(call.conn, UnreachableReply(call.type))
                                  ELSE EmptyBag
                       /\ clients' = clients
                       /\ store' = store)
             /\ (call.op = "lookup" /\ StoreReturn(call, FALSE))
                   => (/\ sent' = IF Live(call.conn)
                                  THEN Only(call.conn, LookupFailedReply(call.type))
                                  ELSE EmptyBag
                       /\ clients' = clients
                       /\ store' = store)]_vars

\* The lookup for an offer found no token and the originator, still open,
\* got the error reply with originalType offer.
C11_Witness ==
    /\ last.event = "store_return"
    /\ Live(last.conn)
    /\ Identified(last.conn)
    /\ sent = Only(last.conn, UnreachableReply(Offer))

Exists(ws) == readyState[ws] # UNBORN

\* C12 (identity invariant): every connection, from its accept on, has either
\* a provisional id and no userId or a userId and no provisional id, whatever
\* logins were accepted, rejected or repeated on it.
C12_IdentityInvariant ==
    \A c \in Conns : Exists(c) => ((clientId[c] # None) <=> (userId[c] = None))

\* A login has just been rejected on one connection, which keeps its
\* provisional id, while the other was promoted by a login and then logged in
\* a second time.
C12_Witness ==
    \E a, b \in Conns :
        /\ a # b
        /\ last = Step("message", b)
        /\ sent = Only(b, ConflictReply)
        /\ clientId[b] # None
        /\ userId[b] = None
        /\ clientId[a] = None
        /\ userId[a] # None
        /\ \A u \in Users : clients[u] = a

\* C13 (login is a one-way, one-time transition): an envelope handled on a
\* connection that already holds a userId leaves that userId as it is, adds no
\* registry entry and does not close the connection; so a login promotes a
\* connection only if it is not yet identified.
C13_LoginOnce ==
    [][\A ws \in Conns, m \in LoginEnvelopes :
          (/\ last'.event = "message"
           /\ Identified(ws)
           /\ Message(ws, m))
          => (/\ userId'[ws] = userId[ws]
              /\ clients' = clients
              /\ Live(ws)')]_vars

\* A login for a userId that the registry holds for another connection.
LoginConflict(ws, m) ==
    /\ m.type = Login
    /\ ValidString(m.payload)
    /\ clients[m.payload] # NoConn
    /\ clients[m.payload] # ws

\* C14 (errors keep the connection open): handling an envelope, whatever
\* error it runs into, and the return of a store call, failed or not, close no
\* connection; the one exception is the login conflict, which terminates the
\* new connection that asked for a userId another connection holds, and
\* nothing else.
C14_ErrorsKeepOpen ==
    [][/\ \A ws \in Conns, m \in Envelopes :
             (last' = MessageStep(ws, m) /\ Message(ws, m))
                 => IF LoginConflict(ws, m)
                    THEN readyState' = terminate(readyState, ws)
                    ELSE readyState' = readyState
       /\ \A call \in pending, ok \in BOOLEAN :
             StoreReturn(call, ok) => readyState' = readyState]_vars

\* C15 (per-connection ordering): the handling of an envelope of a connection
\* starts only when no earlier envelope of that connection is still being
\* handled, also when the earlier one waits on a store call.
C15_OneAtATime ==
    [][\A ws \in Conns :
          (last'.event = "message" /\ \E m \in Envelopes : Message(ws, m))
              => \A call \in pending : call.conn # ws]_vars

Signalled == \E i \in Signals : shutdown[i] # "none"

\* C16 (shutdown always ends): once a termination signal has been handled
\* the process eventually exits, whether or not wss.close ever calls back or
\* closeDbPool ever returns, also when the signal came before the endpoint
\* was created.
C16_ShutdownEnds == Signalled ~> ~Running

\* C17 (shutdown order): a termination signal stops the heartbeat timer first,
\* so no tick fires once shutdown has begun; it then terminates every open
\* connection and closes the endpoint; the store is released only when the
\* endpoint has closed (or when there is none), and the process exits with
\* code 0 only when closeDbPool has returned.
C17_ShutdownOrder ==
    /\ [](Signalled => ~heartbeatInterval)
    /\ [][HeartbeatTick => ~Signalled]_vars
    /\ [][\A i \in Signals :
             (gracefulShutdown(i) /\ wss # "null")
                 => (/\ \A c \in Conns : ~Live(c)'
                     /\ wss' \in {"closing", "closed"}
                     /\ poolEnding' = poolEnding)]_vars
    /\ [](poolEnding => wss \in {"null", "closed"})
    /\ [][(Running /\ exited' = "0") => \E i \in Signals : DbPoolClosed(i)]_vars

SaveFor(ws, m) == StoreCall("save", ws, m.type, userId[ws], m.payload)

PushRegisteredReply(ws) == Reply(PushRegistered, userId[ws], None)

SaveFailedReply == ErrorReply("Failed to save push token on server", RegisterPush)

StoreCalls(bag) == {o \in BagToSet(bag) : o.kind \in {"save", "lookup"}}

\* What a register_push envelope does up to the store call: with a token, on
\* an identified connection, the one call is save(own userId, token) and
\* nothing is sent to a socket; otherwise the store is not called.
CallsSaveOnce ==
    \A ws \in Conns, m \in PushEnvelopes :
        (last' = MessageStep(ws, m) /\ Message(ws, m))
            => IF Identified(ws) /\ ValidString(m.payload)
               THEN /\ pending' = pending \cup {SaveFor(ws, m)}
                    /\ sent' = SetToBag({Out("save", NoConn, RegisterPush, m.payload,
                                             None, userId[ws], None)})
                    /\ store' = store
               ELSE /\ pending' = pending
                    /\ StoreCalls(sent') = {}
                    /\ store' = store

\* C18 as stated (push-token registration): ... when save succeeds the
\* originator gets push_registered, when it fails one server-error reply, and
\* save is not called again.
C18_AlwaysReplies ==
    [][/\ CallsSaveOnce
       /\ \A call \in pending :
             /\ (call.op = "save" /\ StoreReturn(call, TRUE))
                   => (/\ sent' = Only(call.conn, PushRegisteredReply(call.conn))
                       /\ pending' = pending \ {call})
             /\ (call.op = "save" /\ StoreReturn(call, FALSE))
                   => (/\ sent' = Only(call.conn, SaveFailedReply)
                       /\ pending' = pending \ {call})]_vars

\* C18 as amended: ... the reply, push_registered or the server error, goes
\* to the originator if it is still open when save returns, and nothing is
\* sent if it is not; a save that succeeded has stored the token under the
\* userId, a save that failed has stored nothing, and neither is followed by
\* another call of the store.
C18_PushRegistration ==
    [][/\ CallsSaveOnce
       /\ \A call \in pending :
             /\ (call.op = "save" /\ StoreReturn(call, TRUE))
                   => (/\ sent' = IF Live(call.conn)
                                  THEN Only(call.conn, PushRegisteredReply(call.conn))
                                  ELSE EmptyBag
                       /\ store' = [store EXCEPT ![call.key] = call.token]
                       /\ pending' = pending \ {call})
             /\ (call.op = "save" /\ StoreReturn(call, FALSE))
                   => (/\ sent' = IF Live(call.conn)
                                  THEN Only(call.conn, SaveFailedReply)
                                  ELSE EmptyBag
                       /\ store' = store
                       /\ pending' = pending \ {call})]_vars

\* save has returned: the token is stored under the userId of the originator,
\* which is still open and got push_registered.
C18_Witness ==
    /\ last.event = "store_return"
    /\ Live(last.conn)
    /\ Identified(last.conn)
    /\ store[userId[last.conn]] = "tok"
    /\ sent = Only(last.conn, PushRegisteredReply(last.conn))

\* `if (userId && clients.has(userId)) clients.delete(userId)` as a function of
\* the registry.
unregister(map, uid) ==
    IF uid # None /\ map[uid] # NoConn THEN [map EXCEPT ![uid] = NoConn] ELSE map

Absent(uid) == uid = None \/ clients[uid] = NoConn

\* C19 (idempotent unregister): the close or error listener of a connection
\* whose userId is not in the registry (it never logged in, its error event
\* removed the entry before, or the shutdown cleared the registry) leaves the
\* registry as it is and sends no notice; the listeners remove by unregister,
\* and unregistering twice is unregistering once.
C19_IdempotentUnregister ==
    /\ [](\A c \in Conns :
            /\ closeListener(readyState, c).map = unregister(clients, userId[c])
            /\ unregister(unregister(clients, userId[c]), userId[c])
                 = unregister(clients, userId[c]))
    /\ [][\A ws \in Conns :
            (/\ last' \in {Step("close", ws), Step("error", ws)}
             /\ Absent(userId[ws])
             /\ (OnClose(ws) \/ OnError(ws)))
            => (/\ clients' = clients
                /\ sent' = EmptyBag
                /\ removals' = removals
                /\ notices' = notices)]_vars

\* The close event of a connection whose error event had removed its entry
\* and sent its notice has been handled: nothing more was removed or sent,
\* though another identified connection is open.
C19_Witness ==
    \E c, d \in Conns :
        /\ last = Step("close", c)
        /\ errored[c]
        /\ Identified(c)
        /\ removals[c] = 1
        /\ notices[c] = 1
        /\ sent = EmptyBag
        /\ d # c
        /\ Live(d)
        /\ Identified(d)

LoginSuccessReply(uid) == Reply(LoginSuccess, uid, None)

\* C20 (router frame condition): handling an envelope changes the registry
\* only when it is a login that is answered with login_success, and then by
\* adding the one entry userId -> connection; every other envelope, and the
\* continuation of a handler after its store call, leave the registry as it
\* is, and no entry is ever removed or replaced by the router.
C20_RouterFrame ==
    [][/\ \A ws \in Conns, u \in Users :
             (/\ last' = Step("message", ws)
              /\ sent' = Only(ws, LoginSuccessReply(u))
              /\ Message(ws, Envelope(Login, u, None, None)))
                 => (/\ clients[u] = NoConn
                     /\ clients' = [clients EXCEPT ![u] = ws])
       /\ (/\ last'.event \in {"message", "store_return"}
           /\ \A o \in BagToSet(sent') : o.type # LoginSuccess)
             => clients' = clients
       /\ last'.event \in {"message", "store_return"}
             => \A u \in Users : clients[u] # NoConn => clients'[u] = clients[u]]_vars

\* A login has just been accepted while the registry holds another entry,
\* for another connection.
C20_Witness ==
    \E ws, d \in Conns, u, v \in Users :
        /\ last = Step("message", ws)
        /\ sent = Only(ws, LoginSuccessReply(u))
        /\ clients[u] = ws
        /\ d # ws
        /\ v # u
        /\ clients[v] = d
        /\ userId[d] = v

UserLeftNotices(bag) == {o \in BagToSet(bag) : o.kind = "send" /\ o.type = UserLeft}

\* C21 (close of a never-identified connection): the close listener and the
\* error listener of a connection that holds no userId, and a heartbeat tick
\* whatever it terminates, leave the registry as it is and send no user_left
\* to anyone; this includes the close of a connection that was terminated for
\* a login conflict.
C21_AnonymousClose ==
    [][/\ \A ws \in Conns :
             (/\ last' \in {Step("close", ws), Step("error", ws)}
              /\ ~Identified(ws)
              /\ (OnClose(ws) \/ OnError(ws)))
                 => (/\ clients' = clients
                     /\ sent' = EmptyBag
                     /\ ~Live(ws)')
       /\ HeartbeatTick => (clients' = clients /\ UserLeftNotices(sent') = {})]_vars

\* The close event of a connection that never logged in and that the
\* heartbeat terminated has been handled, while an identified connection is
\* open: it got nothing.
C21_Witness ==
    \E c, d \in Conns :
        /\ last = Step("close", c)
        /\ ~Identified(c)
        /\ unanswered[c] = 2
        /\ sent = EmptyBag
        /\ d # c
        /\ Live(d)
        /\ Identified(d)
        /\ clients[userId[d]] = d

\* C22 (alive flag): the flag is true at accept; it goes from true to false
\* only in a heartbeat tick that does not terminate the connection and calls
\* ping on it (the probe goes out if the connection is open); it goes from
\* false to true only when a pong of the connection is handled (or a new
\* connection is accepted); handling an envelope never changes it.
C22_AliveFlag ==
    /\ [][\A ws \in Conns : Connection(ws) => isAlive'[ws]]_vars
    /\ [][\A c \in Conns :
             (isAlive[c] /\ ~isAlive'[c])
                 => (/\ HeartbeatTick
                     /\ c \in wssClients
                     /\ readyState'[c] = readyState[c]
                     /\ Live(c) => CopiesIn(PingTo(c), sent') = 1)]_vars
    /\ [][\A c \in Conns :
             (~isAlive[c] /\ isAlive'[c]) => (Pong(c) \/ Connection(c))]_vars
    /\ [][last'.event = "message" => isAlive' = isAlive]_vars

\* A tick has just cleared the flag of an open connection that had logged in,
\* and probed it.
C22_Witness ==
    \E c \in Conns :
        /\ last.event = "tick"
        /\ Live(c)
        /\ Identified(c)
        /\ ~isAlive[c]
        /\ unanswered[c] = 1
        /\ CopiesIn(PingTo(c), sent) = 1

\* A run of gracefulShutdown has terminated the sockets and closed the endpoint.
ForciblyClosed == wss \in {"closing", "closed"}

\* C23 (shutdown teardown of the registry): the run of gracefulShutdown that
\* terminates the connections leaves no connection open and the registry
\* empty; from then on the registry stays empty and no step, the close and
\* error events of those connections included, sends a user_left notice.
C23_ShutdownTeardown ==
    /\ [][\A i \in Signals :
             (gracefulShutdown(i) /\ wss # "null")
                 => (/\ ForciblyClosed'
                     /\ \A c \in Conns : ~Live(c)')]_vars
    /\ [](ForciblyClosed => \A u \in Users : clients[u] = NoConn)
    /\ [](ForciblyClosed => UserLeftNotices(sent) = {})
    /\ [][ForciblyClosed => (clients' = clients /\ sent' = EmptyBag)]_vars

\* After the shutdown terminated two identified connections the close event
\* of one of them has been handled: nothing was removed and nothing sent.
C23_Witness ==
    \E c, d \in Conns :
        /\ ForciblyClosed
        /\ last = Step("close", c)
        /\ Identified(c)
        /\ removals[c] = 0
        /\ sent = EmptyBag
        /\ d # c
        /\ Identified(d)
        /\ readyState[d] = CLOSING
        /\ removals[d] = 0

ErrorReplies(bag) == {o \in BagToSet(bag) : o.kind = "send" /\ o.type = Error}

\* C24 (originalType echo): every error reply sent while an envelope is
\* handled, before or after its store call, carries the type of that envelope
\* as originalType.
C24_OriginalTypeEcho ==
    [][/\ \A ws \in Conns, m \in Envelopes :
             (last' = MessageStep(ws, m) /\ Message(ws, m))
                 => \A o \in ErrorReplies(sent') : o.originalType = m.type
       /\ \A call \in pending, ok \in BOOLEAN :
             StoreReturn(call, ok)
                 => \A o \in ErrorReplies(sent') : o.originalType = call.type]_vars

\* C25 (registry key consistency): every registry key maps to a connection
\* whose userId is that key, and no connection is stored under two keys.
C25_KeyConsistency ==
    /\ \A k \in Users : clients[k] # NoConn => userId[clients[k]] = k
    /\ \A k, j \in Users : (clients[k] # NoConn /\ clients[k] = clients[j]) => k = j

\* C26 (cleanup touches only the own entry): the close listener and the error
\* listener of connection c leave every registry entry that maps to another
\* connection as it is, and send no user_left for a userId that another open
\* connection holds.
C26_OwnEntryOnly ==
    [][\A c \in Conns :
          (/\ last' \in {Step("close", c), Step("error", c)}
           /\ (OnClose(c) \/ OnError(c)))
          => (/\ \A u \in Users :
                    (clients[u] # NoConn /\ clients[u] # c) => clients'[u] = clients[u]
              /\ \A o \in UserLeftNotices(sent') :
                    ~\E d \in Conns : d # c /\ Live(d) /\ userId[d] = o.payload)]_vars

\* The messages among the units a listener handed out, as a bag.
Sends(bag) == [o \in {x \in BagToSet(bag) : x.kind = "send"} |-> CopiesIn(o, bag)]

\* C27 (one outcome per envelope): a handler that ends without a store call
\* emits exactly one message, a reply to the originator or a forward of the
\* relay envelope to the connection of its target; a handler that waits on
\* the store emits nothing before the call returns and then one reply to the
\* originator if that is still open, nothing if it is not, and does not run
\* on after that.
C27_OneOutcome ==
    [][/\ last'.event = "message"
             => IF pending' # pending
                THEN BagCardinality(Sends(sent')) = 0
                ELSE /\ BagCardinality(sent') = 1
                     /\ \A o \in BagToSet(sent') :
                           /\ o.kind = "send"
                           /\ \/ o.to = last'.conn /\ o.type \notin RelayTypes
                              \/ /\ o.type \in RelayTypes
                                 /\ o.to = clients[o.target]
                                 /\ Live(o.to)
       /\ \A call \in pending, ok \in BOOLEAN :
             StoreReturn(call, ok)
                 => (/\ BagCardinality(sent') = IF Live(call.conn) THEN 1 ELSE 0
                     /\ \A o \in BagToSet(sent') : o.kind = "send" /\ o.to = call.conn
                     /\ call \notin pending')]_vars

\* A message_request has been forwarded to its target, another connection,
\* as the one message of its handler, and nothing went to the originator.
C27_Witness ==
    \E o \in BagToSet(sent) :
        /\ last.event = "message"
        /\ BagCardinality(Sends(sent)) = 1
        /\ o.type = MessageRequest
        /\ o.to # last.conn
        /\ Live(o.to)
        /\ userId[o.to] = o.target
        /\ o.sender = userId[last.conn]

====
